---- MODULE Spec2Model ----
(***************************************************************************)
(* The DUAL finite state machine of python-eigrp (src/dualfsm.py) for one  *)
(* destination: the DualFsm object with its Fysom transition table, the    *)
(* per-state handler objects, and the topology entry the handlers work on. *)
(*                                                                         *)
(* The topology entry (TopologyEntry, TopologyNeighborInfo), the metric    *)
(* class and the engine that calls the handlers and carries out the        *)
(* actions they return are not part of src/; those definitions follow the  *)
(* specification's sections 3, 4.1, 4.2 and 2.                             *)
(*                                                                         *)
(* Reading of the source.  Control flow, return statements (and their      *)
(* absence), the shape of returned values and the construction of the      *)
(* Fysom machine are modelled as written.  A name the source uses without  *)
(* binding it is read as the object it evidently stands for: tlv.metric is *)
(* the metric argument, tlv.dest.addr.exploded is t_entry.prefix, the bare *)
(* name successor is t_entry.successor, SET_METRIC and SEND_UPDATE are the *)
(* two further kinds of the action vocabulary, self.NO_OP is NO_OP.  The    *)
(* comment-only else branch of StateActive0._received_last_reply is an      *)
(* empty branch.                                                           *)
(***************************************************************************)
EXTENDS Integers, Sequences, FiniteSets, TLC

\* Bounds of the model.
NumNeighbors == 2
MaxDelay == 2

NeighborIds == 1..NumNeighbors

\* Requested actions, src/dualfsm.py lines 14-19.
NO_OP == 1
INSTALL_SUCCESSOR == 2
UNINSTALL_SUCCESSOR == 3
MODIFY_SUCCESSOR_ROUTE == 4
SEND_QUERY == 5
SEND_REPLY == 6
\* Used at src/dualfsm.py lines 213-214, defined nowhere in the source.
SET_METRIC == 7
SEND_UPDATE == 8

\* TopologyEntry.NO_SUCCESSOR (src/dualfsm.py line 221).
NO_SUCCESSOR == 0

----------------------------------------------------------------------------
\* Metric (the class is not in src/; specification sections 3 and 4.1).

\* The reserved delay that marks a destination unreachable.
INFINITE_DELAY == 65535

\* EIGRP.DEFAULT_K_VALUES, src/eigrp.py line 40.
DEFAULT_K_VALUES == <<1, 74, 1, 0, 0, 0>>

get_kvalues == DEFAULT_K_VALUES

Metric(d) ==
    [bandwidth |-> 1, delay |-> d, reliability |-> 255, load |-> 1,
     mtu |-> 1500, hopcount |-> 1]

Metrics == {Metric(d) : d \in (1..MaxDelay) \cup {INFINITE_DELAY}}

UnreachableMetric == Metric(INFINITE_DELAY)

reachable(m) == m.delay # INFINITE_DELAY

\* Metric.compute_metric(k1..k6): the classic composite formula.
compute_metric(m, k) ==
    LET bw == k[1] * m.bandwidth + (k[2] * m.bandwidth) \div (256 - m.load)
        base == 256 * (bw + k[3] * m.delay)
    IN  IF k[5] # 0 THEN (base * k[5]) \div (m.reliability + k[4]) ELSE base

----------------------------------------------------------------------------
\* The Fysom machine of DualFsm.

States == {"Passive", "Active0", "Active1", "Active2", "Active3"}
ActiveStates == States \ {"Passive"}

Ev(n, s, d) == [name |-> n, src |-> s, dst |-> d]

\* The rows of IE6, IE7 and IE8.
SelfLoops == {Ev(e, s, s) : e \in {"IE6", "IE7", "IE8"}, s \in ActiveStates}

\* The table with the destination of IE3 mistaken for that of IE4.
MutantEventsIE3 ==
    SelfLoops \cup
    {Ev("IE1", "Passive", "Passive"), Ev("IE2", "Passive", "Passive"),
     Ev("IE3", "Passive", "Active1"), Ev("IE4", "Passive", "Active1"),
     Ev("IE5", "Active0", "Active2"),
     Ev("IE9", "Active1", "Active0"), Ev("IE10", "Active3", "Active2"),
     Ev("IE11", "Active0", "Active1"), Ev("IE12", "Active2", "Active3"),
     Ev("IE13", "Active3", "Passive"), Ev("IE14", "Active0", "Passive"),
     Ev("IE15", "Active1", "Passive"), Ev("IE16", "Active2", "Passive")}

\* The table with IE8 leading to Passive from every active state.
MutantEventsIE8 ==
    {Ev(e, s, s) : e \in {"IE6", "IE7"}, s \in ActiveStates} \cup
    {Ev("IE8", s, "Passive") : s \in ActiveStates} \cup
    {Ev("IE1", "Passive", "Passive"), Ev("IE2", "Passive", "Passive"),
     Ev("IE3", "Passive", "Active3"), Ev("IE4", "Passive", "Active1"),
     Ev("IE5", "Active0", "Active2"),
     Ev("IE9", "Active1", "Active0"), Ev("IE10", "Active3", "Active2"),
     Ev("IE11", "Active0", "Active1"), Ev("IE12", "Active2", "Active3"),
     Ev("IE13", "Active3", "Passive"), Ev("IE14", "Active0", "Passive"),
     Ev("IE15", "Active1", "Passive"), Ev("IE16", "Active2", "Passive")}

\* The table with the destination of IE3 mistaken for that of IE10.
MutantEventsIE10 ==
    SelfLoops \cup
    {Ev("IE1", "Passive", "Passive"), Ev("IE2", "Passive", "Passive"),
     Ev("IE3", "Passive", "Active2"), Ev("IE4", "Passive", "Active1"),
     Ev("IE5", "Active0", "Active2"),
     Ev("IE9", "Active1", "Active0"), Ev("IE10", "Active3", "Active2"),
     Ev("IE11", "Active0", "Active1"), Ev("IE12", "Active2", "Active3"),
     Ev("IE13", "Active3", "Passive"), Ev("IE14", "Active0", "Passive"),
     Ev("IE15", "Active1", "Passive"), Ev("IE16", "Active2", "Passive")}

\* DualFsm.DUAL_EVENTS, src/dualfsm.py lines 24-49.
DUAL_EVENTS ==
    {Ev("IE1", "Passive", "Passive"), Ev("IE2", "Passive", "Passive"),
     Ev("IE3", "Passive", "Active3"), Ev("IE4", "Passive", "Active1"),
     Ev("IE5", "Active0", "Active2"),
     Ev("IE6", "Active0", "Active0"), Ev("IE7", "Active0", "Active0"),
     Ev("IE8", "Active0", "Active0"),
     Ev("IE6", "Active1", "Active1"), Ev("IE7", "Active1", "Active1"),
     Ev("IE8", "Active1", "Active1"),
     Ev("IE6", "Active2", "Active2"), Ev("IE7", "Active2", "Active2"),
     Ev("IE8", "Active2", "Active2"),
     Ev("IE6", "Active3", "Active3"), Ev("IE7", "Active3", "Active3"),
     Ev("IE8", "Active3", "Active3"),
     Ev("IE9", "Active1", "Active0"), Ev("IE10", "Active3", "Active2"),
     Ev("IE11", "Active0", "Active1"), Ev("IE12", "Active2", "Active3"),
     Ev("IE13", "Active3", "Passive"), Ev("IE14", "Active0", "Passive"),
     Ev("IE15", "Active1", "Passive"), Ev("IE16", "Active2", "Passive")}

\* Fysom: calling the event method e while the machine is in state cur.  An
\* event with no row for cur raises FysomError and leaves the machine alone.
FysomFire(e, cur) ==
    LET rows == {r \in DUAL_EVENTS : r.name = e /\ r.src = cur}
    IN  IF rows = {} THEN [ok |-> FALSE, cur |-> cur]
        ELSE [ok |-> TRUE, cur |-> (CHOOSE r \in rows : TRUE).dst]

\* What Fysom does with self._state on a transition.  DualFsm.__init__ builds
\* the callbacks dict but constructs Fysom from 'initial' and 'events' only,
\* so no _enter_* callback is registered and self._state is left as it is.
OnEnter(st, cur) == st

----------------------------------------------------------------------------
VARIABLES
    current,            \* t_entry.fsm.fsm.current, the DUAL state
    self_state,         \* DualFsm._state, the handler object handle_* use
    neighbors,          \* t_entry.neighbors: the neighbors with a record
    reported_distance,  \* reported_distance of each neighbor's record
    waiting_for_reply,  \* waiting_for_reply of each neighbor: a list of prefixes
    successor,          \* t_entry.successor
    feasible_distance,  \* t_entry.feasible_distance
    ret,                \* the value the last DualFsm.handle_* call returned
    call,               \* the last call: its handler and neighbor
    fired,              \* the input events the last call fired, in order
    dc,                 \* history of the diffusing computation begun last
    other,              \* the entry and DualFsm of a second destination
    eigrp,              \* the EIGRP object: its fields and its interfaces
    reactor,            \* the Twisted reactor: running, and the calls it holds
    outcome             \* the last call on the EIGRP object and how it ended

vars == <<current, self_state, neighbors, reported_distance, waiting_for_reply,
          successor, feasible_distance, ret, call, fired, dc, other,
          eigrp, reactor, outcome>>

\* The topology entry, its DualFsm and the record of the last call on it.
dual_vars == <<current, self_state, neighbors, reported_distance,
               waiting_for_reply, successor, feasible_distance, ret, call,
               fired, dc, other>>

\* The destinations.  prefix is t_entry.prefix, the destination of the entry
\* the handlers are called with; other_prefix is a second destination of the
\* topology table, with a TopologyEntry and a DualFsm of its own.
prefix == "D1"
other_prefix == "D2"
Prefixes == {prefix, other_prefix}

\* neighbor.waiting_for_reply is one list for each neighbor, holding the
\* prefixes of all destinations the neighbor owes a reply for (lines 195,
\* 267, 351).  A list is kept as the number of times each prefix is in it;
\* append(p) adds one p, remove(p) takes the first p out.
EmptyList == [p \in Prefixes |-> 0]
ListAppend(l, p) == [l EXCEPT ![p] = @ + 1]
ListRemove(l, p) == [l EXCEPT ![p] = @ - 1]

\* Returned values.  list((K, d)) is the two-element list [K, d]; a list
\* built with append((K, d)) is a list of (kind, data) records; a handler
\* that ends without a return statement returns None; an exception leaves
\* the call without a value.
NoneData == [tag |-> "None"]
TlvData == [tag |-> "tlv"]
NbrData(n) == [tag |-> "neighbor", id |-> n]
Act(k, d) == [kind |-> k, data |-> d]
RetNone == [shape |-> "None", acts |-> <<>>]
RetFlat(k, d) == [shape |-> "flat", acts |-> <<Act(k, d)>>]
RetList(as) == [shape |-> "list", acts |-> as]
RetRaise(x) == [shape |-> x, acts |-> <<>>]
Raised(r) == r.shape \in {"FysomError", "KeyError", "ValueError", "TypeError"}

\* The reply_wait_set of the entry: the neighbors flagged as owing a reply.
ReplyWaitSet(w) == {n \in NeighborIds : w[n][prefix] > 0}

\* TopologyEntry.all_replies_received().
all_replies_received(w) == ReplyWaitSet(w) = {}

computed_distance(rd, n) == compute_metric(rd[n], get_kvalues)

\* TopologyEntry.get_feasible_successor(): the reachable neighbor other than
\* the successor with the least computed distance among those meeting the
\* feasibility condition; NO_SUCCESSOR stands for "none".
MutantFeasibleNoFC(nbrs, rd, succ, fd) ==
    LET c == {n \in nbrs : n # succ /\ reachable(rd[n])}
    IN  IF c = {} THEN NO_SUCCESSOR
        ELSE CHOOSE n \in c : \A o \in c :
                 \/ computed_distance(rd, n) < computed_distance(rd, o)
                 \/ computed_distance(rd, n) = computed_distance(rd, o) /\ n <= o

get_feasible_successor(nbrs, rd, succ, fd) ==
    LET c == {n \in nbrs : /\ n # succ
                           /\ reachable(rd[n])
                           /\ computed_distance(rd, n) < fd}
    IN  IF c = {} THEN NO_SUCCESSOR
        ELSE CHOOSE n \in c : \A o \in c :
                 \/ computed_distance(rd, n) < computed_distance(rd, o)
                 \/ computed_distance(rd, n) = computed_distance(rd, o) /\ n <= o

\* The outcome of a handler call: the entry's fields it may change, the
\* value it returns and the events it fired.
Out(cur, nbrs, rd, w, r, ev) ==
    [cur |-> cur, nbrs |-> nbrs, rd |-> rd, wait |-> w, ret |-> r, fired |-> ev]

\* "for n_entry in t_entry.neighbors: n_entry.waiting_for_reply.append(prefix)"
\* The mutant gives each neighbor a new list holding the prefix alone.
MutantSetReplyFlags(nbrs, w) ==
    [n \in NeighborIds |-> IF n \in nbrs THEN ListAppend(EmptyList, prefix) ELSE w[n]]

SetReplyFlags(nbrs, w) ==
    [n \in NeighborIds |-> IF n \in nbrs THEN ListAppend(w[n], prefix) ELSE w[n]]

----------------------------------------------------------------------------
\* StatePassive (src/dualfsm.py lines 116-304).

\* Lines 216-225: the update came from a neighbor that is not the successor.
MutantInstallAlways(n, m) ==
    IF ~reachable(m) THEN RetFlat(NO_OP, NoneData)
    ELSE RetFlat(INSTALL_SUCCESSOR, NbrData(n))

UpdateFromNonSuccessor(n, m) ==
    IF successor = NO_SUCCESSOR
    THEN IF ~reachable(m) THEN RetFlat(NO_OP, NoneData)
         ELSE RetFlat(INSTALL_SUCCESSOR, NbrData(n))
    ELSE RetFlat(NO_OP, NoneData)

\* Lines 152-159: get_neighbor, add_neighbor on KeyError, update_neighbor.
\* The record of the sender holds the advertised metric from here on.
RecordUpdate(n, m) ==
    [nbrs |-> neighbors \cup {n},
     rd |-> [reported_distance EXCEPT ![n] = m]]

StatePassive_handle_update(n, m) ==
    LET u == RecordUpdate(n, m)
        kvalues == get_kvalues
    IN  IF successor = n
        THEN IF compute_metric(u.rd[successor], kvalues) = compute_metric(m, kvalues)
             THEN Out(current, u.nbrs, u.rd, waiting_for_reply,
                      RetFlat(NO_OP, NoneData), <<>>)
             ELSE IF ~reachable(m)
                  THEN LET fs == get_feasible_successor(u.nbrs, u.rd, successor,
                                                        feasible_distance)
                       IN  IF fs # NO_SUCCESSOR
                           THEN Out(current, u.nbrs, u.rd, waiting_for_reply,
                                    RetFlat(INSTALL_SUCCESSOR, NbrData(fs)), <<>>)
                           ELSE LET f == FysomFire("IE4", current)
                                IN  IF ~f.ok
                                    THEN Out(current, u.nbrs, u.rd, waiting_for_reply,
                                             RetRaise("FysomError"), <<>>)
                                    \* the actions list built here is not returned:
                                    \* control reaches the return of line 225
                                    ELSE Out(f.cur, u.nbrs, u.rd,
                                             SetReplyFlags(u.nbrs, waiting_for_reply),
                                             RetFlat(NO_OP, NoneData), <<"IE4">>)
                  ELSE Out(current, u.nbrs, u.rd, waiting_for_reply,
                           RetList(<<Act(SET_METRIC, TlvData),
                                     Act(SEND_UPDATE, TlvData)>>), <<>>)
        ELSE Out(current, u.nbrs, u.rd, waiting_for_reply,
                 UpdateFromNonSuccessor(n, m), <<>>)

\* Lines 227-230.
StatePassive_handle_reply(n) ==
    Out(current, neighbors, reported_distance, waiting_for_reply,
        RetFlat(NO_OP, NoneData), <<>>)

\* Lines 232-275.
StatePassive_handle_query(n, m) ==
    IF successor = n
    THEN LET fs == get_feasible_successor(neighbors, reported_distance, successor,
                                          feasible_distance)
         IN  IF fs # NO_SUCCESSOR
             THEN Out(current, neighbors, reported_distance, waiting_for_reply,
                      RetFlat(SEND_REPLY, NbrData(fs)), <<>>)
             ELSE LET f == FysomFire("IE3", current)
                  IN  IF ~f.ok
                      THEN Out(current, neighbors, reported_distance,
                               waiting_for_reply, RetRaise("FysomError"), <<>>)
                      \* no return statement on this branch
                      ELSE Out(f.cur, neighbors, reported_distance,
                               SetReplyFlags(neighbors, waiting_for_reply),
                               RetNone, <<"IE3">>)
    ELSE LET f == FysomFire("IE1", current)
         IN  IF ~f.ok
             THEN Out(current, neighbors, reported_distance, waiting_for_reply,
                      RetRaise("FysomError"), <<>>)
             ELSE Out(f.cur, neighbors, reported_distance, waiting_for_reply,
                      RetFlat(SEND_REPLY, NbrData(successor)), <<"IE1">>)

\* Lines 277-304: handle_link_down and handle_link_metric_change are "pass".
StatePassive_handle_link_down ==
    Out(current, neighbors, reported_distance, waiting_for_reply, RetNone, <<>>)

StatePassive_handle_link_metric_change ==
    Out(current, neighbors, reported_distance, waiting_for_reply, RetNone, <<>>)

----------------------------------------------------------------------------
\* BaseActive and its subclasses (src/dualfsm.py lines 307-552).  st is the
\* handler object, named by the state it stands for.

\* Lines 323-331.  get_neighbor raises KeyError for a neighbor with no record.
BaseActive_handle_update(st, n, m) ==
    IF n \notin neighbors
    THEN Out(current, neighbors, reported_distance, waiting_for_reply,
             RetRaise("KeyError"), <<>>)
    ELSE IF reported_distance[n] # m
    THEN LET f == FysomFire("IE7", current)
         IN  IF ~f.ok
             THEN Out(current, neighbors, reported_distance, waiting_for_reply,
                      RetRaise("FysomError"), <<>>)
             ELSE Out(f.cur, neighbors, [reported_distance EXCEPT ![n] = m],
                      waiting_for_reply, RetFlat(NO_OP, NoneData), <<"IE7">>)
    ELSE Out(current, neighbors, reported_distance, waiting_for_reply,
             RetFlat(NO_OP, NoneData), <<>>)

\* _received_last_reply of StateActive0 (lines 384-397), StateActive1 (lines
\* 441-446), StateActive2 (lines 469-475) and StateActive3 (lines 497-518),
\* called with the reply flags w and after the events ev.
received_last_reply(st, w, ev) ==
    LET fs == get_feasible_successor(neighbors, reported_distance, successor,
                                     feasible_distance)
        install == IF fs # NO_SUCCESSOR
                   THEN <<Act(INSTALL_SUCCESSOR, NbrData(fs))>> ELSE <<>>
    IN  CASE st = "Active0" ->
               LET f == FysomFire("IE14", current)
               IN  IF ~f.ok
                   THEN Out(current, neighbors, reported_distance, w,
                            RetRaise("FysomError"), ev)
                   ELSE Out(f.cur, neighbors, reported_distance, w,
                            RetList(install), Append(ev, "IE14"))
          [] st = "Active3" ->
               LET f == FysomFire("IE13", current)
               IN  IF ~f.ok
                   THEN Out(current, neighbors, reported_distance, w,
                            RetRaise("FysomError"), ev)
                   ELSE Out(f.cur, neighbors, reported_distance, w,
                            RetList(Append(install,
                                           Act(SEND_REPLY, NbrData(successor)))),
                            Append(ev, "IE13"))
          [] OTHER ->
               \* StateActive1 and StateActive2: the body is "pass"
               Out(current, neighbors, reported_distance, w, RetNone, ev)

\* Lines 333-354.  list.remove raises ValueError when the prefix is not in
\* the list.
BaseActive_handle_reply(st, n) ==
    LET f == FysomFire("IE8", current)
    IN  IF ~f.ok
        THEN Out(current, neighbors, reported_distance, waiting_for_reply,
                 RetRaise("FysomError"), <<>>)
        ELSE IF waiting_for_reply[n][prefix] = 0
        THEN Out(f.cur, neighbors, reported_distance, waiting_for_reply,
                 RetRaise("ValueError"), <<"IE8">>)
        ELSE LET w == [waiting_for_reply EXCEPT ![n] = ListRemove(@, prefix)]
             IN  IF all_replies_received(w)
                 THEN received_last_reply(st, w, <<"IE8">>)
                 ELSE Out(f.cur, neighbors, reported_distance, w,
                          RetFlat(NO_OP, NoneData), <<"IE8">>)

\* Lines 356-372.  Every subclass defines _handle_query_from_successor
\* without a self parameter (lines 399, 448, 477, 520), so the bound call of
\* line 369, which passes six arguments to five parameters, raises TypeError.
BaseActive_handle_query(st, n, m) ==
    IF n = successor
    THEN Out(current, neighbors, reported_distance, waiting_for_reply,
             RetRaise("TypeError"), <<>>)
    ELSE LET f == FysomFire("IE6", current)
         IN  IF ~f.ok
             THEN Out(current, neighbors, reported_distance, waiting_for_reply,
                      RetRaise("FysomError"), <<>>)
             ELSE Out(f.cur, neighbors, reported_distance, waiting_for_reply,
                      RetFlat(SEND_REPLY, NbrData(successor)), <<"IE6">>)

\* handle_link_down (lines 407, 457, 485, 529) and handle_link_metric_change
\* (lines 374, 425) are "pass" in every active state.
BaseActive_handle_link_down(st) ==
    Out(current, neighbors, reported_distance, waiting_for_reply, RetNone, <<>>)

BaseActive_handle_link_metric_change(st) ==
    Out(current, neighbors, reported_distance, waiting_for_reply, RetNone, <<>>)

----------------------------------------------------------------------------
\* DualFsm (src/dualfsm.py lines 86-109): each handle_* hands the call to the
\* handler object self._state.  Only handle_update returns what it gets.

DropResult(o) == IF Raised(o.ret) THEN o ELSE [o EXCEPT !.ret = RetNone]

DualFsm_handle_update(n, m) ==
    IF self_state = "Passive" THEN StatePassive_handle_update(n, m)
    ELSE BaseActive_handle_update(self_state, n, m)

DualFsm_handle_reply(n) ==
    DropResult(IF self_state = "Passive" THEN StatePassive_handle_reply(n)
               ELSE BaseActive_handle_reply(self_state, n))

DualFsm_handle_query(n, m) ==
    DropResult(IF self_state = "Passive" THEN StatePassive_handle_query(n, m)
               ELSE BaseActive_handle_query(self_state, n, m))

DualFsm_handle_link_down ==
    DropResult(IF self_state = "Passive" THEN StatePassive_handle_link_down
               ELSE BaseActive_handle_link_down(self_state))

DualFsm_handle_link_metric_change ==
    DropResult(IF self_state = "Passive" THEN StatePassive_handle_link_metric_change
               ELSE BaseActive_handle_link_metric_change(self_state))

----------------------------------------------------------------------------
\* The engine (specification section 2): it routes an inbound event to the
\* handler and carries out the actions the handler returned, in order.  A
\* returned [K, d] is carried out as the action K with data d.

\* TopologyEntry.install_successor(id) and uninstall_successor().
install_successor(e, rd, n) ==
    [succ |-> n, fd |-> computed_distance(rd, n)]

uninstall_successor(e) == [e EXCEPT !.succ = NO_SUCCESSOR]

ExecuteAction(e, rd, a) ==
    IF a.kind = INSTALL_SUCCESSOR /\ a.data.tag = "neighbor"
    THEN install_successor(e, rd, a.data.id)
    ELSE IF a.kind = UNINSTALL_SUCCESSOR THEN uninstall_successor(e)
    ELSE e

RECURSIVE ExecuteActions(_, _, _)
ExecuteActions(e, rd, acts) ==
    IF acts = <<>> THEN e
    ELSE ExecuteActions(ExecuteAction(e, rd, Head(acts)), rd, Tail(acts))

\* The history of the diffusing computation: the reply_wait_set and the
\* successor at the moment an active state was entered from Passive, and
\* the neighbors of that set whose reply has been delivered since.
NextDc(op, n, o) ==
    IF current = "Passive" /\ o.cur # "Passive"
    THEN [started |-> TRUE, snapshot |-> ReplyWaitSet(o.wait), replied |-> {},
          old_successor |-> successor]
    ELSE IF op = "reply" /\ current # "Passive"
    THEN [dc EXCEPT !.replied = @ \cup ({n} \cap dc.snapshot)]
    ELSE dc

\* One event: the handler's outcome o becomes the state, the returned
\* actions are carried out.
Commit(op, n, o) ==
    LET e == ExecuteActions([succ |-> successor, fd |-> feasible_distance],
                            o.rd, o.ret.acts)
    IN  /\ current' = o.cur
        /\ self_state' = OnEnter(self_state, o.cur)
        /\ neighbors' = o.nbrs
        /\ reported_distance' = o.rd
        /\ waiting_for_reply' = o.wait
        /\ successor' = e.succ
        /\ feasible_distance' = e.fd
        /\ ret' = o.ret
        /\ call' = [op |-> op, nbr |-> n]
        /\ fired' = o.fired
        /\ dc' = NextDc(op, n, o)
        /\ other' = other
        /\ UNCHANGED <<eigrp, reactor, outcome>>

UpdateEvent(n, m) == Commit("update", n, DualFsm_handle_update(n, m))

QueryEvent(n, m) == Commit("query", n, DualFsm_handle_query(n, m))

ReplyEvent(n) == Commit("reply", n, DualFsm_handle_reply(n))

LinkDownEvent(n) == Commit("link_down", n, DualFsm_handle_link_down)

LinkMetricChangeEvent(n) ==
    Commit("link_metric_change", n, DualFsm_handle_link_metric_change)

----------------------------------------------------------------------------
\* The EIGRP process (src/eigrp.py): the values its methods compute.

NumIfaces == 2
MaxCalls == 3

\* The addresses of the local system's logical interfaces
\* (self._sys.logical_ifaces), and the address of another host.
Ifaces == 1..NumIfaces
RemoteAddr == NumIfaces + 1
Addresses == Ifaces \cup {RemoteAddr}

\* The ids of the DelayedCall objects of the reactor.
CallIds == 1..MaxCalls

DEFAULT_HT_MULTIPLIER == 3

\* RTPHeader2, lines 414-425.
HEADERLEN == 1 + 1 + 2 + 4 + 4 + 4 + 2 + 2
VER == 2
OPC_UPDATE == 1
OPC_REQUEST == 2
OPC_QUERY == 3
OPC_REPLY == 4
OPC_HELLO == 5
OPC_PROBE == 7
OPC_SIAQUERY == 10
OPC_SIAREPLY == 11

\* The value of a kvalues argument: None or a list of integers.  "not v" is
\* true of None and of the empty list.
None == [tag |-> "None", items |-> <<>>]
List(s) == [tag |-> "list", items |-> s]
Truthy(v) == v.tag = "list" /\ v.items # <<>>

\* The arguments the constructor is called with: None, the empty list, and
\* the lists of five, six and seven of the values below whose elements
\* from the second on are equal.
KValueInputs == {-1, 0, 255, 256}
KValueArgs ==
    {None, List(<<>>)} \cup
    {List([i \in 1..l |-> IF i = 1 THEN a ELSE b]) :
        l \in {5, 6, 7}, a \in KValueInputs, b \in KValueInputs}
HelloIntervals == {0, 1, 21845, 21846}

\* The datagrams: their length, and the version and opcode bytes of those
\* long enough to hold a header.
NoData == [len |-> 0, ver |-> 0, opcode |-> 0]
Datagrams ==
    {NoData, [NoData EXCEPT !.len = HEADERLEN - 1]} \cup
    {[len |-> HEADERLEN, ver |-> v, opcode |-> o] :
        v \in {VER - 1, VER},
        o \in {OPC_UPDATE, OPC_REQUEST, OPC_QUERY, OPC_REPLY, OPC_HELLO,
               OPC_PROBE, OPC_SIAQUERY, OPC_SIAREPLY}}

\* Line 82 (the division of two integers is an integer division).
MutantMaxHelloInterval == 65535 \div (DEFAULT_HT_MULTIPLIER - 1)
max_hello_interval == 65535 \div DEFAULT_HT_MULTIPLIER

\* The packed hello packet, by its fields (_build_hello_pkt, lines 146-160;
\* EIGRPFieldParam lines 326-367; RTPPacket.pack lines 378-384).
\* EIGRPFieldParam takes the keyword form only with a holdtime that is not
\* zero, and struct.pack takes a K-value in one byte and the holdtime in
\* two.
NoPacket == [opcode |-> 0, k |-> <<>>, holdtime |-> 0]
build_hello_pkt(k, ht) ==
    IF ht = 0
    THEN [exc |-> "ValueError: raw or all other values", pkt |-> NoPacket]
    ELSE IF (\E i \in 1..Len(k) : k[i] \notin 0..255) \/ ht \notin 0..65535
    THEN [exc |-> "struct.error", pkt |-> NoPacket]
    ELSE [exc |-> "none",
          pkt |-> [opcode |-> OPC_HELLO, k |-> k, holdtime |-> ht]]

\* The EIGRP object: before construction, and as __init__ leaves it.
NoObject ==
    [exists |-> FALSE, hello_interval |-> 0, holdtime |-> 0, kvalues |-> <<>>,
     hello_pkt |-> NoPacket, activated |-> {}]
Failed(x) == [exc |-> x, obj |-> NoObject]

\* EIGRP.__init__ (lines 77-119) called with a router id and an AS number
\* in range, header version 2, on a platform sysiface supports, with the
\* K-values kv, the hello interval hi and the requested addresses req.
\* Line 99 follows the raise of line 98 inside the except clause, so the
\* sum of the K-values is never looked at.  activate_iface (lines 122-129)
\* ends in a raise whose message names the unbound "iface".
EIGRP_init(kv, hi, req) ==
    IF ~(1 <= hi /\ hi <= max_hello_interval)
    THEN Failed("ValueError: hello_interval")
    ELSE IF ~Truthy(kv) \/ Len(kv.items) # 6
    THEN Failed("ValueError: exactly 6 K-values")
    ELSE IF \E i \in 1..Len(kv.items) :
                ~(0 <= kv.items[i] /\ kv.items[i] <= 255)
    THEN Failed("ValueError: each kvalue between 0 and 255")
    ELSE LET ht == hi * DEFAULT_HT_MULTIPLIER
             b == build_hello_pkt(kv.items, ht)
         IN  IF b.exc # "none" THEN Failed(b.exc)
             ELSE IF req \ Ifaces # {} THEN Failed("NameError")
             ELSE [exc |-> "none",
                   obj |-> [exists |-> TRUE, hello_interval |-> hi,
                            holdtime |-> ht, kvalues |-> kv.items,
                            hello_pkt |-> b.pkt, activated |-> req]]

\* _register_op_handlers, lines 170-178: the opcodes with a handler.
RegisteredOpcodes ==
    {OPC_UPDATE, OPC_REQUEST, OPC_QUERY, OPC_REPLY, OPC_HELLO, OPC_SIAQUERY,
     OPC_SIAREPLY}

\* RTPHeader2(raw) for the first HEADERLEN bytes of a datagram (lines
\* 430-460): with an empty raw neither form of the constructor applies;
\* struct.unpack takes exactly HEADERLEN bytes.
RTPHeader2_raw(d) ==
    IF d.len = 0
    THEN [exc |-> "ValueError", VER |-> 0, opcode |-> 0]
    ELSE IF d.len < HEADERLEN
    THEN [exc |-> "struct.error", VER |-> 0, opcode |-> 0]
    ELSE [exc |-> "none", VER |-> d.ver, opcode |-> d.opcode]

\* The attributes an unpacked RTPHeader2 has (lines 414-428, 459-460).
RTPHeader2_attrs ==
    {"FORMAT", "HEADERLEN", "VER", "opcode", "chksum", "flags", "seq", "ack",
     "rid", "asn"}

\* How a call on the EIGRP object ends: the exception it raises, if any,
\* and the opcodes whose handler it invoked.
Ended(x, hs) == [exc |-> x, handlers |-> hs]

\* EIGRP.datagramReceived, lines 218-254, for a datagram d from the address
\* src.  Line 240 reads hdr.hdrver.
datagramReceived(src, d) ==
    IF src \in Ifaces THEN Ended("none", {})
    ELSE LET hdr == RTPHeader2_raw(d)
         IN  IF hdr.exc = "struct.error" THEN Ended("none", {})
             ELSE IF hdr.exc # "none" THEN Ended(hdr.exc, {})
             ELSE IF "hdrver" \notin RTPHeader2_attrs
             THEN Ended("AttributeError", {})
             ELSE IF hdr.VER # VER THEN Ended("none", {})
             ELSE IF hdr.opcode \notin RegisteredOpcodes THEN Ended("none", {})
             ELSE Ended("none", {hdr.opcode})

\* The interfaces _send_periodic_hello writes the hello packet on (lines
\* 164-167).
MutantAllIfaces(e) == Ifaces
HelloTargets(e) == e.activated

\* No EIGRP object yet, the reactor not started, no call made.
NoCall ==
    [op |-> "none", kvalues |-> None, hello_interval |-> 0,
     addr |-> RemoteAddr, data |-> NoData, exc |-> "none", handlers |-> {},
     written |-> [i \in Ifaces |-> 0]]
NoReactor == [running |-> FALSE, startup |-> 0, calls |-> {}]
NoProcess ==
    /\ eigrp = NoObject
    /\ reactor = NoReactor
    /\ outcome = NoCall

\* A fresh entry and its DualFsm (DualFsm.__init__, lines 51-69): no
\* neighbors, no successor, unreachable.
FreshEntry ==
    /\ current = "Passive"
    /\ self_state = "Passive"
    /\ neighbors = {}
    /\ reported_distance = [n \in NeighborIds |-> UnreachableMetric]
    /\ successor = NO_SUCCESSOR
    /\ feasible_distance = compute_metric(UnreachableMetric, get_kvalues)
    /\ ret = RetNone
    /\ call = [op |-> "init", nbr |-> NO_SUCCESSOR]
    /\ fired = <<>>
    /\ dc = [started |-> FALSE, snapshot |-> {}, replied |-> {},
             old_successor |-> NO_SUCCESSOR]

\* The entry of the second destination when the neighbors of F owe a reply
\* for it: fresh when F is empty, else in Active3, where a query from its
\* successor has taken it (lines 258-267).
OtherEntry(F) ==
    IF F = {}
    THEN [current |-> "Passive", self_state |-> "Passive",
          successor |-> NO_SUCCESSOR,
          feasible_distance |-> compute_metric(UnreachableMetric, get_kvalues)]
    ELSE [current |-> "Active3", self_state |-> "Passive",
          successor |-> CHOOSE n \in F : \A o \in F : n <= o,
          feasible_distance |-> compute_metric(Metric(1), get_kvalues)]

\* The lists of the neighbors when those of F owe a reply for the second
\* destination.
OtherFlags(F) ==
    [n \in NeighborIds |->
        IF n \in F THEN ListAppend(EmptyList, other_prefix) ELSE EmptyList]

Init ==
    /\ FreshEntry
    /\ waiting_for_reply = OtherFlags({})
    /\ other = OtherEntry({})
    /\ NoProcess

Next ==
    \/ \E n \in NeighborIds, m \in Metrics : UpdateEvent(n, m)
    \/ \E n \in NeighborIds, m \in Metrics : QueryEvent(n, m)
    \/ \E n \in NeighborIds : ReplyEvent(n)
    \/ \E n \in NeighborIds : LinkDownEvent(n)
    \/ \E n \in NeighborIds : LinkMetricChangeEvent(n)

Spec == Init /\ [][Next]_vars

\* The entry beside the entry of a second destination, which events handled
\* earlier have left in Active3 waiting for the reply of one neighbor; the
\* other neighbors owe it nothing.
InitTwo ==
    LET F == {CHOOSE n \in NeighborIds : \A o \in NeighborIds : n <= o}
    IN  /\ FreshEntry
        /\ waiting_for_reply = OtherFlags(F)
        /\ other = OtherEntry(F)
        /\ NoProcess

SpecTwo == InitTwo /\ [][Next]_vars

\* The handlers of every state class.  No call sequence takes a fresh entry
\* to Active0, Active1 or Active2, so the handlers of those classes are
\* exercised on an entry built directly: its Fysom machine stepped to a DUAL
\* state with the machine's own events, its neighbors, successor and reply
\* flags filled in, and its DualFsm either as __init__ leaves it (self._state
\* the StatePassive object) or with the _enter_ method of that state called.
InitHandlers ==
    /\ current \in States
    /\ self_state \in {"Passive", current}
    /\ neighbors \in (SUBSET NeighborIds) \ {{}}
    /\ reported_distance \in [NeighborIds -> Metrics]
    /\ \A n \in NeighborIds \ neighbors : reported_distance[n] = UnreachableMetric
    /\ successor \in neighbors
    /\ feasible_distance = computed_distance(reported_distance, successor)
    /\ \E W \in SUBSET neighbors :
           /\ (W = {}) <=> (current = "Passive")
           /\ waiting_for_reply =
                  [n \in NeighborIds |->
                      IF n \in W THEN ListAppend(EmptyList, prefix) ELSE EmptyList]
           /\ dc = [started |-> current # "Passive", snapshot |-> W,
                    replied |-> {}, old_successor |-> successor]
    /\ ret = RetNone
    /\ call = [op |-> "init", nbr |-> NO_SUCCESSOR]
    /\ fired = <<>>
    /\ other = OtherEntry({})
    /\ NoProcess

SpecHandlers == InitHandlers /\ [][Next]_vars

\* The replies delivered to an entry built in this way: every sequence of
\* handle_reply calls on every such entry.
NextReplies == \E n \in NeighborIds : ReplyEvent(n)

SpecReplies == InitHandlers /\ [][NextReplies]_vars

----------------------------------------------------------------------------
\* The EIGRP process (src/eigrp.py): the calls made on the object and the
\* calls the reactor makes.  Nothing in src/eigrp.py holds a topology entry
\* or a DualFsm, so these steps leave the entry as it is.

\* EIGRP(...), lines 45-120.  Line 119 hands _send_periodic_hello to the
\* reactor, which is not running yet.
Construct(kv, hi, req) ==
    LET r == EIGRP_init(kv, hi, req)
    IN  /\ ~eigrp.exists
        /\ outcome.op = "none"
        /\ eigrp' = r.obj
        /\ reactor' = IF r.exc = "none"
                      THEN [reactor EXCEPT !.startup = @ + 1] ELSE reactor
        /\ outcome' = [NoCall EXCEPT !.op = "init", !.kvalues = kv,
                                     !.hello_interval = hi, !.exc = r.exc]
        /\ UNCHANGED dual_vars

\* EIGRP.run, lines 201-204: the reactor starts.
Run ==
    /\ eigrp.exists
    /\ ~reactor.running
    /\ reactor' = [reactor EXCEPT !.running = TRUE]
    /\ outcome' = [NoCall EXCEPT !.op = "run"]
    /\ UNCHANGED eigrp
    /\ UNCHANGED dual_vars

\* The calls of _send_periodic_hello the reactor holds: the one queued for
\* its start (id 0) and the DelayedCalls.
PendingHellos(r) ==
    (IF r.startup > 0 THEN {[id |-> 0, delay |-> 0]} ELSE {}) \cup r.calls

\* reactor.callLater(delay, ...): a new DelayedCall beside those held and
\* the one being run.
callLater(calls, running_id, delay) ==
    LET used == {c.id : c \in calls} \cup {running_id}
    IN  calls \cup {[id |-> CHOOSE i \in CallIds \ used :
                                \A j \in CallIds \ used : i <= j,
                     delay |-> delay]}

\* _send_periodic_hello, lines 162-168, run by the reactor when the call t
\* is due.
SendPeriodicHello ==
    /\ eigrp.exists
    /\ reactor.running
    /\ \E t \in PendingHellos(reactor) :
           LET left == IF t.id = 0
                       THEN [reactor EXCEPT !.startup = @ - 1]
                       ELSE [reactor EXCEPT !.calls = @ \ {t}]
           IN  /\ CallIds \ ({c.id : c \in left.calls} \cup {t.id}) # {}
               /\ reactor' = [left EXCEPT !.calls =
                                 callLater(@, t.id, eigrp.hello_interval)]
    /\ outcome' = [NoCall EXCEPT !.op = "hello",
                      !.written = [i \in Ifaces |->
                          IF i \in HelloTargets(eigrp) THEN 1 ELSE 0]]
    /\ UNCHANGED eigrp
    /\ UNCHANGED dual_vars

\* activate_iface, lines 122-129.
ActivateIface(a) ==
    /\ eigrp.exists
    /\ eigrp' = IF a \in Ifaces
                THEN [eigrp EXCEPT !.activated = @ \cup {a}] ELSE eigrp
    /\ outcome' = [NoCall EXCEPT !.op = "activate_iface", !.addr = a,
                      !.exc = IF a \in Ifaces THEN "none" ELSE "NameError"]
    /\ UNCHANGED reactor
    /\ UNCHANGED dual_vars

\* datagramReceived, called by the transport of the running reactor.  The
\* handler it invokes writes a log line (lines 180-199).
DatagramReceived(src, d) ==
    LET r == datagramReceived(src, d)
    IN  /\ eigrp.exists
        /\ reactor.running
        /\ outcome' = [NoCall EXCEPT !.op = "datagramReceived", !.addr = src,
                          !.data = d, !.exc = r.exc, !.handlers = r.handlers]
        /\ UNCHANGED <<eigrp, reactor>>
        /\ UNCHANGED dual_vars

\* _eigrp_op_handler_update .. _eigrp_op_handler_siareply, lines 180-199,
\* invoked for a packet of opcode opc: each writes one log line.
OpHandler(opc) ==
    /\ eigrp.exists
    /\ outcome' = [NoCall EXCEPT !.op = "op_handler", !.handlers = {opc}]
    /\ UNCHANGED <<eigrp, reactor>>
    /\ UNCHANGED dual_vars

NextEigrp ==
    \/ /\ outcome.op = "none"
       /\ \E kv \in KValueArgs, hi \in HelloIntervals, req \in SUBSET Addresses :
              Construct(kv, hi, req)
    \/ Run
    \/ SendPeriodicHello
    \/ \E a \in Addresses : ActivateIface(a)
    \/ \E src \in Addresses, d \in Datagrams : DatagramReceived(src, d)
    \/ \E opc \in RegisteredOpcodes : OpHandler(opc)

SpecEigrp == Init /\ [][NextEigrp]_vars

\* The running reactor runs every call that is due.
SpecEigrpFair == SpecEigrp /\ WF_vars(SendPeriodicHello)

----------------------------------------------------------------------------
\* Shorthands for the properties below.

WaitSet == ReplyWaitSet(waiting_for_reply)

InitialDistance == compute_metric(UnreachableMetric, get_kvalues)

HasAction(r, k, d) == \E i \in 1..Len(r.acts) : r.acts[i] = Act(k, d)

HasKind(r, k) == \E i \in 1..Len(r.acts) : r.acts[i].kind = k

\* The step delivers the last outstanding reply of a diffusing computation:
\* a ReplyEvent from the one neighbor still in the reply_wait_set.
LastReplyStep ==
    /\ current \in ActiveStates
    /\ call'.op = "reply"
    /\ WaitSet = {call'.nbr}

\* C1: Diffusing computation termination: once a reply has been delivered
\* for every neighbor that was in reply_wait_set when the active state was
\* entered, the entry is Passive and its reply_wait_set is empty.
C1_Termination ==
    (dc.started /\ dc.snapshot \subseteq dc.replied)
        => (current = "Passive" /\ WaitSet = {})

\* C2: Passive invariant: while the entry is Passive, its reply_wait_set is
\* empty and its successor, if set, is a neighbor whose record is reachable.
C2_PassiveInvariant ==
    current = "Passive" =>
        /\ WaitSet = {}
        /\ successor # NO_SUCCESSOR =>
               (successor \in neighbors /\ reachable(reported_distance[successor]))

C4_NoSuccessorWhileUnreachable ==
    (\A n \in neighbors : ~reachable(reported_distance[n]))
        => successor = NO_SUCCESSOR

\* C5: Monotonic feasible distance while passive: a handle_update or
\* handle_query call that starts and ends in Passive never increases
\* feasible_distance.
C5_MonotonicWhilePassive ==
    [][(/\ current = "Passive"
        /\ current' = "Passive"
        /\ call'.op \in {"update", "query"})
           => feasible_distance' <= feasible_distance]_vars

\* Passive with a successor installed, a second neighbor known, and the
\* last call an update from a neighbor other than the successor.
C5_Witness ==
    /\ current = "Passive"
    /\ successor # NO_SUCCESSOR
    /\ feasible_distance < InitialDistance
    /\ call.op = "update"
    /\ call.nbr # successor
    /\ reachable(reported_distance[call.nbr])

\* C6: Feasible distance is frozen during a diffusing computation: a handler
\* call that starts in an active state and does not return the entry to
\* Passive leaves feasible_distance unchanged, and feasible_distance
\* increases only in a step that takes the entry from active to Passive.
C6_FrozenWhileActive ==
    [][/\ (current \in ActiveStates /\ current' \in ActiveStates)
              => feasible_distance' = feasible_distance
       /\ feasible_distance' > feasible_distance
              => (current \in ActiveStates /\ current' = "Passive")]_vars

\* An update from a reachable neighbor other than the successor was handled
\* while the entry was active.
C6_Witness ==
    /\ current \in ActiveStates
    /\ fired = <<>>
    /\ call.op = "update"
    /\ call.nbr # successor
    /\ reachable(reported_distance[call.nbr])
    /\ computed_distance(reported_distance, call.nbr) # feasible_distance

\* The canonical transition table of the specification, section 4.3.
CanonicalTable ==
    {<<"IE1", "Passive", "Passive">>, <<"IE2", "Passive", "Passive">>,
     <<"IE3", "Passive", "Active3">>, <<"IE4", "Passive", "Active1">>,
     <<"IE5", "Active0", "Active2">>, <<"IE9", "Active1", "Active0">>,
     <<"IE10", "Active3", "Active2">>, <<"IE11", "Active0", "Active1">>,
     <<"IE12", "Active2", "Active3">>, <<"IE13", "Active3", "Passive">>,
     <<"IE14", "Active0", "Passive">>, <<"IE15", "Active1", "Passive">>,
     <<"IE16", "Active2", "Passive">>}
    \cup {<<e, s, s>> : e \in {"IE6", "IE7", "IE8"}, s \in ActiveStates}

\* The state the canonical table leads to from s under the events evs, or
\* "none" when one of them has no row for the state it is applied in.
RECURSIVE CanonicalRun(_, _)
CanonicalRun(s, evs) ==
    IF evs = <<>> THEN s
    ELSE LET to == {r[3] : r \in {x \in CanonicalTable :
                                      x[1] = Head(evs) /\ x[2] = s}}
         IN  IF to = {} THEN "none"
             ELSE CanonicalRun(CHOOSE t \in to : TRUE, Tail(evs))

C8_EnteringActive ==
    [][(current = "Passive" /\ current' \in ActiveStates)
          => /\ feasible_distance' = feasible_distance
             /\ successor' = NO_SUCCESSOR
             /\ ReplyWaitSet(waiting_for_reply') = neighbors'
             /\ HasKind(ret', SEND_QUERY)
             /\ HasKind(ret', UNINSTALL_SUCCESSOR)]_vars

\* The least computed distance over the records of nbrs.
MinComputedDistance(nbrs, rd) ==
    CHOOSE d \in {computed_distance(rd, n) : n \in nbrs} :
        \A n \in nbrs : d <= computed_distance(rd, n)

\* C9: Completion rule: when the last outstanding reply is received in an
\* active state, feasible_distance becomes the least computed distance over
\* all current neighbor records and a neighbor achieving it becomes the
\* successor; with no neighbors left the successor is NO_SUCCESSOR.
C9_CompletionRule ==
    [][LastReplyStep =>
           IF neighbors' = {} THEN successor' = NO_SUCCESSOR
           ELSE /\ feasible_distance' =
                       MinComputedDistance(neighbors', reported_distance')
                /\ successor' \in neighbors'
                /\ computed_distance(reported_distance', successor') =
                       feasible_distance']_vars

\* C10: Reply owed on completion: the call that receives the last
\* outstanding reply returns SEND_REPLY addressed to the previous successor
\* when the computation ends from Active3 or Active1, and no SEND_REPLY to
\* it when the computation ends from Active0 or Active2.
C10_ReplyOwed ==
    [][LastReplyStep =>
           (HasAction(ret', SEND_REPLY, NbrData(dc.old_successor))
                <=> current \in {"Active1", "Active3"})]_vars

----------------------------------------------------------------------------
\* The contracts of the handlers (specification section 4.4).

\* The elements of a returned list.  list((K, d)) (lines 168, 181, 223-225,
\* 230, 256, 275, 331, 354, 372) has the two elements K and d, each a bare
\* value; a list filled with append((K, d)) (lines 187-191, 212-214,
\* 259-263, 390-396, 503-517) has one (kind, data) pair for each append.
ElementForms(r) ==
    IF r.shape = "flat" THEN <<"bare value", "bare value">>
    ELSE [i \in 1..Len(r.acts) |-> "action record"]

\* The kinds of the output action vocabulary.
Vocabulary ==
    {NO_OP, INSTALL_SUCCESSOR, UNINSTALL_SUCCESSOR, MODIFY_SUCCESSOR_ROUTE,
     SEND_QUERY, SEND_REPLY, SET_METRIC, SEND_UPDATE}

\* C11: Every call of a public handler of DualFsm (handle_update,
\* handle_query, handle_reply, handle_link_down, handle_link_metric_change)
\* that returns, returns a list of actions that is not empty; a call with no
\* effect returns the single action NO_OP.
C11_NonEmptyActionList ==
    (call.op # "init" /\ ~Raised(ret)) =>
        /\ ret.shape \in {"flat", "list"}
        /\ ret.acts # <<>>
        /\ (call.op \in {"link_down", "link_metric_change"}
                => ret.acts = <<Act(NO_OP, NoneData)>>)

\* C12: Every element of every list a handler returns is one action record,
\* a kind of the output vocabulary paired with its data; no handler returns
\* a list holding a bare value or a kind outside the vocabulary.
C12_ActionRecords ==
    /\ \A i \in 1..Len(ElementForms(ret)) : ElementForms(ret)[i] = "action record"
    /\ \A i \in 1..Len(ret.acts) : ret.acts[i].kind \in Vocabulary

\* The step is a handle_update from the successor of a Passive entry that
\* takes the successor away: the successor's record was reachable, the
\* advertised metric (the record after the call, line 159) is unreachable.
SuccessorLostStep ==
    /\ current = "Passive"
    /\ successor # NO_SUCCESSOR
    /\ call'.op = "update"
    /\ call'.nbr = successor
    /\ reachable(reported_distance[successor])
    /\ ~reachable(reported_distance'[successor])

\* What get_feasible_successor() returns in that call (line 178).
FeasibleAtCall ==
    get_feasible_successor(neighbors', reported_distance', successor,
                           feasible_distance)

\* The last call was a handle_update with an unreachable metric from the
\* successor of a Passive entry that had no feasible successor: either it
\* took the entry to Active1 with IE4, or the entry is still Passive with
\* that neighbor as its successor.
AfterSuccessorLost ==
    /\ call.op = "update"
    /\ ~reachable(reported_distance[call.nbr])
    /\ \/ current = "Active1" /\ fired = <<"IE4">>
       \/ /\ current = "Passive"
          /\ successor = call.nbr
          /\ get_feasible_successor(neighbors, reported_distance, successor,
                                    feasible_distance) = NO_SUCCESSOR

\* C13: After a Passive entry has lost its successor with no feasible
\* successor (IE4, Active1) while exactly one other neighbor N, reachable,
\* is known, a following handle_reply(N) leaves the entry Passive with
\* successor N and feasible_distance N's computed distance, and returns
\* INSTALL_SUCCESSOR(N) among its actions.
C13_ReplyAfterIE4 ==
    [][(/\ AfterSuccessorLost
        /\ call'.op = "reply"
        /\ neighbors \ {call.nbr} = {call'.nbr}
        /\ reachable(reported_distance[call'.nbr]))
           => /\ current' = "Passive"
              /\ successor' = call'.nbr
              /\ feasible_distance' = computed_distance(reported_distance', call'.nbr)
              /\ HasAction(ret', INSTALL_SUCCESSOR, NbrData(call'.nbr))]_vars

\* C14: IE4: in Passive, a handle_update from the successor with an
\* unreachable metric, when get_feasible_successor() returns none, takes the
\* entry to Active1.
C14_IE4 ==
    [][(SuccessorLostStep /\ FeasibleAtCall = NO_SUCCESSOR)
           => current' = "Active1"]_vars

\* C15: IE2: in Passive, a handle_update from the successor with an
\* unreachable metric, when a feasible successor F exists, leaves the entry
\* Passive with F as its successor and returns INSTALL_SUCCESSOR(F) and
\* SEND_UPDATE among its actions.
C15_IE2 ==
    [][(SuccessorLostStep /\ FeasibleAtCall # NO_SUCCESSOR)
           => /\ current' = "Passive"
              /\ successor' = FeasibleAtCall
              /\ HasAction(ret', INSTALL_SUCCESSOR, NbrData(FeasibleAtCall))
              /\ HasKind(ret', SEND_UPDATE)]_vars

\* The returned value is the list of exactly the one action record (k, d).
ReturnsExactly(r, k, d) ==
    /\ ElementForms(r) = <<"action record">>
    /\ r.acts = <<Act(k, d)>>

\* C16: In Passive with no successor, a handle_update from a neighbor N
\* with a reachable metric returns exactly [INSTALL_SUCCESSOR(N)] and leaves
\* the entry Passive with successor N and feasible_distance N's computed
\* distance; with an unreachable metric it returns exactly [NO_OP] and the
\* successor stays NO_SUCCESSOR.
C16_InstallFirstSuccessor ==
    [][(/\ current = "Passive"
        /\ successor = NO_SUCCESSOR
        /\ call'.op = "update")
           => IF reachable(reported_distance'[call'.nbr])
              THEN /\ ReturnsExactly(ret', INSTALL_SUCCESSOR, NbrData(call'.nbr))
                   /\ current' = "Passive"
                   /\ successor' = call'.nbr
                   /\ feasible_distance' =
                          computed_distance(reported_distance', call'.nbr)
              ELSE /\ ReturnsExactly(ret', NO_OP, NoneData)
                   /\ successor' = NO_SUCCESSOR]_vars

\* C17: IE1: in Passive with a successor, a handle_query from a neighbor N
\* other than the successor returns SEND_REPLY addressed to N, and leaves
\* the DUAL state, the successor, feasible_distance and the reply_wait_set
\* as they were.
C17_IE1 ==
    [][(/\ current = "Passive"
        /\ successor # NO_SUCCESSOR
        /\ call'.op = "query"
        /\ call'.nbr # successor)
           => /\ HasAction(ret', SEND_REPLY, NbrData(call'.nbr))
              /\ current' = current
              /\ successor' = successor
              /\ feasible_distance' = feasible_distance
              /\ ReplyWaitSet(waiting_for_reply') = WaitSet]_vars

\* C18: In Passive, a handle_query from the successor returns SEND_REPLY and
\* leaves the entry Passive when a feasible successor exists; when none
\* exists it takes the entry to Active3 with IE3.
C18_QueryFromSuccessor ==
    [][(/\ current = "Passive"
        /\ successor # NO_SUCCESSOR
        /\ call'.op = "query"
        /\ call'.nbr = successor)
           => IF get_feasible_successor(neighbors, reported_distance, successor,
                                        feasible_distance) # NO_SUCCESSOR
              THEN HasKind(ret', SEND_REPLY) /\ current' = "Passive"
              ELSE current' = "Active3" /\ fired' = <<"IE3">>]_vars

\* C19: When the successor of a Passive entry with no other neighbor is
\* lost, the diffusing computation begun with IE4 ends in the same call: the
\* call leaves the entry Passive with successor NO_SUCCESSOR; and no call
\* leaves the entry in an active state with an empty reply_wait_set.
C19_NoOtherNeighbor ==
    [][/\ (SuccessorLostStep /\ neighbors' = {successor})
              => (current' = "Passive" /\ successor' = NO_SUCCESSOR)
       /\ current' \in ActiveStates => ReplyWaitSet(waiting_for_reply') # {}]_vars

\* C20: In Passive, a handle_update from the successor whose metric differs
\* from the one recorded for the successor and is still reachable stores
\* the new metric in the successor's record, returns SET_METRIC and
\* SEND_UPDATE, and leaves the entry Passive with the same successor.
C20_SuccessorMetricChange ==
    [][(/\ current = "Passive"
        /\ successor # NO_SUCCESSOR
        /\ call'.op = "update"
        /\ call'.nbr = successor
        /\ reachable(reported_distance'[successor])
        /\ reported_distance'[successor] # reported_distance[successor])
           => /\ HasKind(ret', SET_METRIC)
              /\ HasKind(ret', SEND_UPDATE)
              /\ current' = "Passive"
              /\ successor' = successor]_vars

\* The returned value read as actions is the one action NO_OP.
ReturnsNoOp(r) == r.acts = <<Act(NO_OP, NoneData)>>

\* C21: In Passive, a handle_update from the successor returns [NO_OP] with
\* the DUAL state, the successor and feasible_distance unchanged if and only
\* if the advertised metric equals the metric recorded for the successor
\* before the call.
C21_NoOpIffUnchanged ==
    [][(/\ current = "Passive"
        /\ successor # NO_SUCCESSOR
        /\ call'.op = "update"
        /\ call'.nbr = successor)
           => ((/\ ReturnsNoOp(ret')
                /\ current' = current
                /\ successor' = successor
                /\ feasible_distance' = feasible_distance)
               <=> compute_metric(reported_distance'[successor], get_kvalues)
                       = compute_metric(reported_distance[successor], get_kvalues))]_vars

\* C22: IE7: in an active state, a handle_update from a known neighbor
\* changes no record but that neighbor's, returns exactly [NO_OP], and leaves
\* the DUAL state, the successor, feasible_distance and the reply_wait_set
\* unchanged.
C22_IE7 ==
    [][(/\ current \in ActiveStates
        /\ call'.op = "update"
        /\ call'.nbr \in neighbors)
           => /\ \A n \in NeighborIds \ {call'.nbr} :
                      reported_distance'[n] = reported_distance[n]
              /\ ReturnsExactly(ret', NO_OP, NoneData)
              /\ current' = current
              /\ successor' = successor
              /\ feasible_distance' = feasible_distance
              /\ ReplyWaitSet(waiting_for_reply') = WaitSet]_vars

\* C23: IE6: in an active state, a handle_query from a known neighbor N
\* other than the old successor returns SEND_REPLY addressed to N and leaves
\* the DUAL state and the reply_wait_set unchanged.
C23_IE6 ==
    [][(/\ current \in ActiveStates
        /\ call'.op = "query"
        /\ call'.nbr \in neighbors
        /\ call'.nbr \notin {successor, dc.old_successor})
           => /\ HasAction(ret', SEND_REPLY, NbrData(call'.nbr))
              /\ current' = current
              /\ ReplyWaitSet(waiting_for_reply') = WaitSet]_vars

C25_PassiveReply ==
    [][(current = "Passive" /\ call'.op = "reply")
           => /\ ReturnsNoOp(ret')
              /\ current' = current
              /\ successor' = successor
              /\ feasible_distance' = feasible_distance
              /\ waiting_for_reply' = waiting_for_reply
              /\ neighbors' = neighbors
              /\ reported_distance' = reported_distance]_vars

\* C26: IE8: in an active state with at least two neighbors owing a reply, a
\* handle_reply from one of them, N, removes exactly N from the
\* reply_wait_set, returns [NO_OP], and leaves the DUAL state, the successor
\* and feasible_distance unchanged.
C26_IE8 ==
    [][(/\ current \in ActiveStates
        /\ call'.op = "reply"
        /\ call'.nbr \in WaitSet
        /\ Cardinality(WaitSet) >= 2)
           => /\ ReplyWaitSet(waiting_for_reply') = WaitSet \ {call'.nbr}
              /\ \A n \in NeighborIds \ {call'.nbr} :
                      waiting_for_reply'[n] = waiting_for_reply[n]
              /\ ReturnsNoOp(ret')
              /\ current' = current
              /\ successor' = successor
              /\ feasible_distance' = feasible_distance]_vars

\* C27: In an active state, a handle_link_down for a neighbor that owes a
\* reply acts as a reply from it: the neighbor leaves the reply_wait_set,
\* and if the set is then empty the entry returns to Passive.
C27_LinkDownWhileActive ==
    [][(/\ current \in ActiveStates
        /\ call'.op = "link_down"
        /\ call'.nbr \in WaitSet)
           => /\ ReplyWaitSet(waiting_for_reply') = WaitSet \ {call'.nbr}
              /\ (WaitSet = {call'.nbr} => current' = "Passive")]_vars

\* C28: In Passive, a handle_link_down for the successor has the outcome of
\* a handle_update from the successor with an unreachable metric: a feasible
\* successor is installed and the entry stays Passive (IE2), or, with none,
\* the entry moves to Active1 (IE4); the lost neighbor is no longer the
\* successor.
C28_LinkDownOfSuccessor ==
    [][(/\ current = "Passive"
        /\ successor # NO_SUCCESSOR
        /\ call'.op = "link_down"
        /\ call'.nbr = successor)
           => LET fs == get_feasible_successor(neighbors, reported_distance,
                                               successor, feasible_distance)
              IN  /\ successor' # successor
                  /\ IF fs # NO_SUCCESSOR
                     THEN current' = "Passive" /\ successor' = fs
                     ELSE current' = "Active1"]_vars

\* C29: A handle_update, handle_query or handle_reply that names a neighbor
\* with no record in the entry ends in an error in every DUAL state: it
\* neither creates the record nor returns normally.
C29_UnknownNeighbor ==
    [][(/\ call'.op \in {"update", "query", "reply"}
        /\ call'.nbr \notin neighbors)
           => (Raised(ret') /\ neighbors' = neighbors)]_vars

\* The reply_wait_set of the second destination.
OtherWaitSet(w) == {n \in NeighborIds : w[n][other_prefix] > 0}

----------------------------------------------------------------------------
\* The EIGRP process and the engine.

\* The DualFsm method an inbound packet of opcode opc is for.
RoutedTo(opc) ==
    CASE opc = OPC_UPDATE -> "update"
      [] opc = OPC_QUERY -> "query"
      [] opc = OPC_REPLY -> "reply"
      [] OTHER -> "none"

\* C31: every inbound UPDATE, QUERY or REPLY that reaches the engine is
\* routed to the state machine of the entry of its destination: the step
\* that handles it is a call of the corresponding handle_update,
\* handle_query or handle_reply (whose actions are then carried out in the
\* order returned).
C31_EventsRouted ==
    [][\A opc \in {OPC_UPDATE, OPC_QUERY, OPC_REPLY} :
          (outcome'.op = "op_handler" /\ outcome'.handlers = {opc})
              => call'.op = RoutedTo(opc)]_vars

\* The K-values the process may run with: six integers, each in 0..255, not
\* all of them zero.
ValidKValues(kv) ==
    /\ kv.tag = "list"
    /\ Len(kv.items) = 6
    /\ \A i \in 1..Len(kv.items) : kv.items[i] \in 0..255
    /\ \E i \in 1..Len(kv.items) : kv.items[i] # 0

\* C32: the constructor succeeds with a K-values sequence only if it has
\* exactly six integers, each in 0..255, at least one of them non-zero;
\* with any other sequence it raises an error and stores no K-values.
C32_KValuesValidated ==
    outcome.op = "init" =>
        /\ outcome.exc = "none" => ValidKValues(outcome.kvalues)
        /\ ~ValidKValues(outcome.kvalues) =>
               (outcome.exc # "none" /\ eigrp.kvalues = <<>>)

\* C33: constructed with kvalues=None (and a hello interval in range) the
\* constructor does not fail on the K-values, and the process uses
\* DEFAULT_K_VALUES.
C33_DefaultKValues ==
    (/\ outcome.op = "init"
     /\ outcome.kvalues = None
     /\ 1 <= outcome.hello_interval
     /\ outcome.hello_interval <= max_hello_interval)
        => /\ outcome.exc \notin {"ValueError: exactly 6 K-values",
                                  "ValueError: each kvalue between 0 and 255"}
           /\ eigrp.exists => eigrp.kvalues = DEFAULT_K_VALUES

----------------------------------------------------------------------------
\* The DualFsm and its state classes, continued.

\* C34: dispatch coherence: after any sequence of handler calls, the
\* handler object the next call is dispatched to (DualFsm._state) is the one
\* of the current DUAL state (fsm.current).
C34_DispatchCoherence == self_state = current

\* The input events the handlers fire.
FiredEvents == {"IE1", "IE3", "IE4", "IE6", "IE7", "IE8", "IE13", "IE14"}

CompletionEvents == {"IE13", "IE14", "IE15", "IE16"}

\* C36: in any Active state, handle_reply from a neighbor that does not owe
\* a reply for this destination leaves the DUAL state and the
\* reply_wait_set unchanged and does not trigger the completion rule: no
\* completion event is fired and the successor and the feasible distance
\* stay as they are.
C36_UnsolicitedReply ==
    [][(/\ call'.op = "reply"
        /\ current \in ActiveStates
        /\ call'.nbr \notin WaitSet)
          => /\ current' = current
             /\ ReplyWaitSet(waiting_for_reply') = WaitSet
             /\ \A i \in 1..Len(fired') : fired'[i] \notin CompletionEvents
             /\ successor' = successor
             /\ feasible_distance' = feasible_distance]_vars

C36_Witness ==
    /\ call.op = "reply"
    /\ current \in ActiveStates
    /\ self_state = current
    /\ call.nbr \notin WaitSet
    /\ WaitSet # {}
    /\ fired = <<"IE8">>
    /\ ret = RetRaise("ValueError")

----------------------------------------------------------------------------
\* The EIGRP process, continued.

\* A datagram the process is to handle: it comes from another host, holds a
\* whole header of version VER, and its opcode has a registered handler.
Acceptable(src, d) ==
    /\ src \notin Ifaces
    /\ d.len >= HEADERLEN
    /\ d.ver = VER
    /\ d.opcode \in {OPC_UPDATE, OPC_REQUEST, OPC_QUERY, OPC_REPLY, OPC_HELLO,
                     OPC_SIAQUERY, OPC_SIAREPLY}

\* C37: datagramReceived invokes an opcode handler if and only if the
\* source is not a local address, the header unpacks, its version is 2 and
\* its opcode is registered; then it invokes exactly the handler of that
\* opcode, and in every other case it returns without invoking a handler
\* and without raising.
C37_DatagramDispatch ==
    outcome.op = "datagramReceived" =>
        IF Acceptable(outcome.addr, outcome.data)
        THEN outcome.handlers = {outcome.data.opcode}
        ELSE outcome.handlers = {} /\ outcome.exc = "none"

\* C38: a hello interval from 1 to 65535 / 3 is accepted by the
\* constructor, and the holdtime advertised in the hello packet is then
\* three times the hello interval and fits an unsigned 16-bit field; every
\* other hello interval is rejected with ValueError.
C38_Holdtime ==
    outcome.op = "init" =>
        IF 1 <= outcome.hello_interval /\ 3 * outcome.hello_interval <= 65535
        THEN /\ outcome.exc # "ValueError: hello_interval"
             /\ eigrp.exists =>
                    /\ eigrp.hello_interval = outcome.hello_interval
                    /\ eigrp.holdtime = 3 * outcome.hello_interval
                    /\ eigrp.hello_pkt.holdtime = eigrp.holdtime
                    /\ eigrp.holdtime <= 65535
        ELSE outcome.exc = "ValueError: hello_interval" /\ ~eigrp.exists

C38_Witness ==
    /\ outcome.op = "init"
    /\ outcome.hello_interval = 21845
    /\ eigrp.exists
    /\ eigrp.hello_pkt.holdtime = 65535

\* C39: once the reactor is running, _send_periodic_hello fires again and
\* again for ever; each firing leaves exactly one next firing scheduled,
\* hello_interval later, and writes the hello packet once for every
\* interface activated at that moment and for no other interface.
C39_PeriodicHello ==
    /\ [][outcome'.op = "hello" =>
            /\ outcome'.written =
                   [i \in Ifaces |-> IF i \in eigrp.activated THEN 1 ELSE 0]
            /\ reactor'.startup = 0
            /\ Cardinality(reactor'.calls) = 1
            /\ \A c \in reactor'.calls : c.delay = eigrp.hello_interval]_vars
    /\ (<>[]reactor.running => []<><<SendPeriodicHello>>_vars)

C39_Witness ==
    /\ outcome.op = "hello"
    /\ reactor.running
    /\ reactor.calls = {[id |-> 2, delay |-> eigrp.hello_interval]}
    /\ eigrp.activated # {}
    /\ eigrp.activated # Ifaces
    /\ \A i \in Ifaces : outcome.written[i] = IF i \in eigrp.activated THEN 1 ELSE 0

====
